---- MODULE Spec2Model ----
(***************************************************************************)
(* Bit vectors over fixed-width blocks (src/src/bit_vector.rs) and the     *)
(* borrowed slice views over them (src/src/bit_vector/slice.rs).           *)
(*                                                                         *)
(* The base bit vector is a block sequence ([Block]).  Positions are u64   *)
(* values; the model scales u64 down to 0..U64Max and keeps its            *)
(* arithmetic: an overflowing +, - or * panics when the build has overflow *)
(* checks (debug profile) and wraps modulo U64Max + 1 when it has not      *)
(* (release profile).  A panicking call leaves the storage as it was and   *)
(* is recorded as the outcome of the call.                                 *)
(***************************************************************************)
EXTENDS Integers, Sequences, FiniteSets

VARIABLES
    nbits,            \* Block::nbits() of the block type of this run
    blocks,           \* the block sequence, a Seq of 0..2^nbits-1
    overflow_checks,  \* TRUE: debug profile, FALSE: release profile
    view,             \* the live slice view over blocks, or none
    last              \* the last call made: its name, arguments and outcome

vars == <<nbits, blocks, overflow_checks, view, last>>

(* u64::MAX, scaled down. Positions, lengths and ranks are 0..U64Max and *)
(* unchecked arithmetic wraps modulo U64Max + 1.                         *)
U64Max == 6

(* The block widths tried (scaled down from 8, 16, 32, 64). *)
NBitsSet == {2, 3}

U64 == 0..U64Max

RECURSIVE Pow2(_)
Pow2(n) == IF n = 0 THEN 1 ELSE 2 * Pow2(n - 1)

BlockValues(w) == 0..(Pow2(w) - 1)

(* ---------------------------------------------------------------------- *)
(* Outcomes of a call: a value, or the panic that ended it.               *)
(* ---------------------------------------------------------------------- *)
OkUnit == [err |-> "none", bit |-> FALSE, num |-> 0]
OkBit(b) == [err |-> "none", bit |-> b, num |-> 0]
OkNum(n) == [err |-> "none", bit |-> FALSE, num |-> n]
Panic(e) == [err |-> e, bit |-> FALSE, num |-> 0]

(* ---------------------------------------------------------------------- *)
(* u64 arithmetic. Each returns an outcome: OkNum, or Panic("Overflow")   *)
(* under overflow checks; without them the result wraps.                  *)
(* ---------------------------------------------------------------------- *)
AddU64(a, b) ==
    IF a + b <= U64Max THEN OkNum(a + b)
    ELSE IF overflow_checks THEN Panic("Overflow")
    ELSE OkNum((a + b) % (U64Max + 1))

SubU64(a, b) ==
    IF a >= b THEN OkNum(a - b)
    ELSE IF overflow_checks THEN Panic("Overflow")
    ELSE OkNum((a - b) % (U64Max + 1))

MulU64(a, b) ==
    IF a * b <= U64Max THEN OkNum(a * b)
    ELSE IF overflow_checks THEN Panic("Overflow")
    ELSE OkNum((a * b) % (U64Max + 1))

(* ---------------------------------------------------------------------- *)
(* The Block capability (block_type, consumed by the traits). The bit at  *)
(* offset 0 is the most significant one: 0b10101010 reads true, false,    *)
(* true, false at offsets 0..3 (test set_get_bit).                        *)
(* ---------------------------------------------------------------------- *)
BlockMask(off) == Pow2(nbits - 1 - off)

BlockGetBit(b, off) == (b \div BlockMask(off)) % 2 = 1

BlockSetBit(b, off, v) ==
    IF v = BlockGetBit(b, off) THEN b
    ELSE IF v THEN b + BlockMask(off)
    ELSE b - BlockMask(off)

(* ---------------------------------------------------------------------- *)
(* impl BitVector / BitVectorMut for [Block]                              *)
(* ---------------------------------------------------------------------- *)
BlockLen(bs) == Len(bs)

(* bit_len with the width of one block type written in for Block::nbits() *)
BitLen_FixedWidth(bs) == MulU64(BlockLen(bs), 2).num

(* self.block_len() as u64 * Block::nbits() as u64 *)
BitLen(bs) == MulU64(BlockLen(bs), nbits).num

(* self[position]: indexing a slice out of its length panics *)
GetBlock(bs, i) ==
    IF i < Len(bs) THEN OkNum(bs[i + 1]) ELSE Panic("IndexOutOfBounds")

(* self[position] = value *)
SetBlock(bs, i, b) ==
    IF i < Len(bs)
    THEN [res |-> OkUnit, blocks |-> [bs EXCEPT ![i + 1] = b]]
    ELSE [res |-> Panic("IndexOutOfBounds"), blocks |-> bs]

(* get_bit dividing by the width of one block type instead of nbits *)
GetBit_FixedWidth(bs, position) ==
    IF ~(position < BitLen(bs)) THEN Panic("OutOfBounds")
    ELSE LET block_index == position \div 2
             bit_offset == position % 2
             blk == GetBlock(bs, block_index)
         IN  IF blk.err # "none" THEN blk
             ELSE OkBit(BlockGetBit(blk.num, bit_offset))

(* BitVector::get_bit, the default method. (position / block_bits)        *)
(* .to_usize().unwrap() cannot fail below the assert: the quotient is     *)
(* less than block_len(), a usize.                                        *)
GetBit(bs, position) ==
    IF ~(position < BitLen(bs)) THEN Panic("OutOfBounds")
    ELSE LET block_index == position \div nbits
             bit_offset == position % nbits
             blk == GetBlock(bs, block_index)
         IN  IF blk.err # "none" THEN blk
             ELSE OkBit(BlockGetBit(blk.num, bit_offset))

(* set_bit building the new block from an empty block, not from the old one *)
SetBit_Clobber(bs, position, value) ==
    IF ~(position < BitLen(bs))
    THEN [res |-> Panic("OutOfBounds"), blocks |-> bs]
    ELSE LET block_index == position \div nbits
             bit_offset == position % nbits
             old_block == GetBlock(bs, block_index)
         IN  IF old_block.err # "none" THEN [res |-> old_block, blocks |-> bs]
             ELSE SetBlock(bs, block_index, BlockSetBit(0, bit_offset, value))

(* BitVectorMut::set_bit, the default method *)
SetBit(bs, position, value) ==
    IF ~(position < BitLen(bs))
    THEN [res |-> Panic("OutOfBounds"), blocks |-> bs]
    ELSE LET block_index == position \div nbits
             bit_offset == position % nbits
             old_block == GetBlock(bs, block_index)
         IN  IF old_block.err # "none" THEN [res |-> old_block, blocks |-> bs]
             ELSE SetBlock(bs, block_index,
                           BlockSetBit(old_block.num, bit_offset, value))

(* ---------------------------------------------------------------------- *)
(* Slice views: BitSlice (shared borrow) and BitSliceMut (exclusive).     *)
(* ---------------------------------------------------------------------- *)
NoView == [kind |-> "none", start |-> 0, len |-> 0]

(* new clamping the end of the range to the base instead of refusing it *)
SliceNew_Clamp(kind, bs, start, end) ==
    LET e == IF end < BitLen(bs) THEN end ELSE BitLen(bs)
        len == SubU64(e, start)
    IN  IF len.err # "none" THEN [res |-> len, view |-> NoView]
        ELSE [res |-> OkUnit,
              view |-> [kind |-> kind, start |-> start, len |-> len.num]]

(* BitSlice::new / BitSliceMut::new: the assert, then the struct literal *)
SliceNew(kind, bs, start, end) ==
    IF ~(end < BitLen(bs)) THEN [res |-> Panic("OutOfBounds"), view |-> NoView]
    ELSE LET len == SubU64(end, start)
         IN  IF len.err # "none" THEN [res |-> len, view |-> NoView]
             ELSE [res |-> OkUnit,
                   view |-> [kind |-> kind, start |-> start, len |-> len.num]]

(* bit_len of a slice: self.len *)
SliceBitLen(s) == s.len

(* get_bit passing the local position to the base untranslated *)
SliceGetBit_NoOffset(s, bs, position) ==
    IF ~(position < s.len) THEN Panic("OutOfBounds")
    ELSE GetBit(bs, position)

(* get_bit of BitSlice and of BitSliceMut *)
SliceGetBit(s, bs, position) ==
    IF ~(position < s.len) THEN Panic("OutOfBounds")
    ELSE LET p == AddU64(s.start, position)
         IN  IF p.err # "none" THEN p ELSE GetBit(bs, p.num)

(* set_bit leaving the bounds check to the base *)
SliceSetBit_NoLenCheck(s, bs, position, value) ==
    LET p == AddU64(s.start, position)
    IN  IF p.err # "none" THEN [res |-> p, blocks |-> bs]
        ELSE SetBit(bs, p.num, value)

(* BitSliceMut::set_bit *)
SliceSetBit(s, bs, position, value) ==
    IF ~(position < s.len) THEN [res |-> Panic("OutOfBounds"), blocks |-> bs]
    ELSE LET p == AddU64(s.start, position)
         IN  IF p.err # "none" THEN [res |-> p, blocks |-> bs]
             ELSE SetBit(bs, p.num, value)

(* ---------------------------------------------------------------------- *)
(* Rank. rank is left to the implementer: here the block sequence itself, *)
(* counting the set bits at positions 0..position.                        *)
(* ---------------------------------------------------------------------- *)
Rank(bs, position) ==
    Cardinality({q \in 0..position : GetBit(bs, q).bit})

(* rank0 counting the clear bits before position only *)
Rank0_OffByOne(bs, position) == SubU64(position, Rank(bs, position))

(* Rank::rank0, the default method: position + 1 - self.rank(position) *)
Rank0(bs, position) ==
    LET s == AddU64(position, 1)
    IN  IF s.err # "none" THEN s ELSE SubU64(s.num, Rank(bs, position))

(* ---------------------------------------------------------------------- *)
(* State                                                                  *)
(* ---------------------------------------------------------------------- *)

Call(op, a, b, v, res) == [op |-> op, a |-> a, b |-> b, v |-> v, res |-> res]

(* A block sequence whose bit length fits u64 (no storage is larger). *)
Shapes(w) == {n \in 0..U64Max : n * w <= U64Max}

Init ==
    /\ nbits \in NBitsSet
    /\ \E n \in Shapes(nbits) : blocks \in [1..n -> BlockValues(nbits)]
    /\ overflow_checks \in BOOLEAN
    /\ view = NoView
    /\ last = Call("init", 0, 0, FALSE, OkUnit)

(* base.get_bit(position): the base is readable unless mutably borrowed *)
GetBitCall ==
    /\ view.kind # "mut"
    /\ \E position \in U64 :
           last' = Call("get_bit", position, 0, FALSE, GetBit(blocks, position))
    /\ UNCHANGED <<nbits, blocks, overflow_checks, view>>

(* base.set_bit(position, value): the base is writable when not borrowed *)
SetBitCall ==
    /\ view.kind = "none"
    /\ \E position \in U64, value \in BOOLEAN :
           LET r == SetBit(blocks, position, value)
           IN  /\ blocks' = r.blocks
               /\ last' = Call("set_bit", position, 0, value, r.res)
    /\ UNCHANGED <<nbits, overflow_checks, view>>

(* base.set_block(position, value) *)
SetBlockCall ==
    /\ view.kind = "none"
    /\ \E position \in 0..BlockLen(blocks), value \in BlockValues(nbits) :
           LET r == SetBlock(blocks, position, value)
           IN  /\ blocks' = r.blocks
               /\ last' = Call("set_block", position, value, FALSE, r.res)
    /\ UNCHANGED <<nbits, overflow_checks, view>>

(* base.rank0(position), at a valid index of the base *)
Rank0Call ==
    /\ view.kind # "mut"
    /\ \E position \in U64 :
           /\ position < BitLen(blocks)
           /\ last' = Call("rank0", position, 0, FALSE, Rank0(blocks, position))
    /\ UNCHANGED <<nbits, blocks, overflow_checks, view>>

(* BitSlice::new(&base, start..end) *)
NewSliceCall ==
    /\ view.kind = "none"
    /\ \E start \in U64, end \in U64 :
           LET r == SliceNew("shared", blocks, start, end)
           IN  /\ view' = r.view
               /\ last' = Call("new", start, end, FALSE, r.res)
    /\ UNCHANGED <<nbits, blocks, overflow_checks>>

(* BitSliceMut::new(&mut base, start..end) *)
NewSliceMutCall ==
    /\ view.kind = "none"
    /\ \E start \in U64, end \in U64 :
           LET r == SliceNew("mut", blocks, start, end)
           IN  /\ view' = r.view
               /\ last' = Call("new_mut", start, end, FALSE, r.res)
    /\ UNCHANGED <<nbits, blocks, overflow_checks>>

(* slice.get_bit(position), on either kind of slice *)
SliceGetBitCall ==
    /\ view.kind # "none"
    /\ \E position \in U64 :
           last' = Call("slice_get_bit", position, 0, FALSE,
                        SliceGetBit(view, blocks, position))
    /\ UNCHANGED <<nbits, blocks, overflow_checks, view>>

(* slice.set_bit(position, value), on a mutable slice *)
SliceSetBitCall ==
    /\ view.kind = "mut"
    /\ \E position \in U64, value \in BOOLEAN :
           LET r == SliceSetBit(view, blocks, position, value)
           IN  /\ blocks' = r.blocks
               /\ last' = Call("slice_set_bit", position, 0, value, r.res)
    /\ UNCHANGED <<nbits, overflow_checks, view>>

(* the slice goes out of scope: the borrow of the base ends *)
DropSlice ==
    /\ view.kind # "none"
    /\ view' = NoView
    /\ last' = Call("drop", 0, 0, FALSE, OkUnit)
    /\ UNCHANGED <<nbits, blocks, overflow_checks>>

Next ==
    \/ GetBitCall
    \/ SetBitCall
    \/ SetBlockCall
    \/ Rank0Call
    \/ NewSliceCall
    \/ NewSliceMutCall
    \/ SliceGetBitCall
    \/ SliceSetBitCall
    \/ DropSlice

Spec == Init /\ [][Next]_vars

(* ====================================================================== *)
(* Properties                                                             *)
(* ====================================================================== *)
NewOps == {"new", "new_mut"}

(* range.end of the range the live view was built from *)
ViewEnd(s) == (s.start + s.len) % (U64Max + 1)

(* C1: on a block sequence, for every position p < bit_len() and every    *)
(* value v, set_bit(p, v) succeeds, get_bit(p) then returns v, and every  *)
(* other bit of the block holding p keeps the value it had.               *)
C1_SetThenGet ==
    [][(last'.op = "set_bit" /\ last'.a < BitLen(blocks)) =>
          /\ last'.res.err = "none"
          /\ GetBit(blocks', last'.a) = OkBit(last'.v)
          /\ \A q \in U64 :
                 (/\ q < BitLen(blocks)
                  /\ q # last'.a
                  /\ q \div nbits = last'.a \div nbits)
                 => GetBit(blocks', q) = GetBit(blocks, q)]_vars

(* a set_bit flipped a bit to its new value next to a set bit it kept *)
C1_Witness ==
    /\ last.op = "set_bit"
    /\ last.res.err = "none"
    /\ ~last.v
    /\ GetBit(blocks, last.a) = OkBit(FALSE)
    /\ \E q \in U64 :
           /\ q < BitLen(blocks)
           /\ q # last.a
           /\ q \div nbits = last.a \div nbits
           /\ GetBit(blocks, q) = OkBit(TRUE)

(* C2: a slice built from start..end reads, at every local position       *)
(* i < end - start, what the base reads at start + i.                     *)
C2_SliceReadsBase ==
    view.kind # "none" =>
        \A i \in U64 :
            i < ViewEnd(view) - view.start =>
                SliceGetBit(view, blocks, i) = GetBit(blocks, view.start + i)

(* a slice that starts past the first block, over a base holding a set    *)
(* bit inside the slice and a clear bit at the same local position of the *)
(* base                                                                   *)
C2_Witness ==
    /\ view.kind # "none"
    /\ view.start >= nbits
    /\ \E i \in U64 :
           /\ i < ViewEnd(view) - view.start
           /\ SliceGetBit(view, blocks, i) = OkBit(TRUE)
           /\ GetBit(blocks, i) = OkBit(FALSE)

(* C3: new accepts every range start..end with start <= end and           *)
(* end <= base.bit_len(), the range reaching the end of the base included.*)
C3_AcceptsUpToBitLen ==
    (/\ last.op \in NewOps
     /\ last.a <= last.b
     /\ last.b <= BitLen(blocks))
    => (last.res.err = "none" /\ view.kind # "none")

(* C4: new with end > base.bit_len() fails out of bounds: no view is      *)
(* returned (nothing is clamped) and the base is as it was.               *)
C4_RejectsPastEnd ==
    [][(last'.op \in NewOps /\ last'.b > BitLen(blocks)) =>
          /\ last'.res.err = "OutOfBounds"
          /\ view' = NoView
          /\ blocks' = blocks]_vars

(* a range that starts inside the base and ends past it was refused *)
C4_Witness ==
    /\ last.op \in NewOps
    /\ last.a < BitLen(blocks)
    /\ last.b > BitLen(blocks)
    /\ last.res.err = "OutOfBounds"
    /\ view = NoView

(* C5: get_bit and set_bit at a position >= bit_len() of the receiver     *)
(* fail out of bounds and change no storage; for a slice the bound is the *)
(* slice's own length.                                                    *)
C5_OutOfBounds ==
    [][/\ (last'.op \in {"get_bit", "set_bit"} /\ last'.a >= BitLen(blocks))
          => (last'.res.err = "OutOfBounds" /\ blocks' = blocks)
       /\ (/\ last'.op \in {"slice_get_bit", "slice_set_bit"}
           /\ last'.a >= SliceBitLen(view))
          => (/\ last'.res.err = "OutOfBounds"
              /\ blocks' = blocks
              /\ view' = view)]_vars

(* a write through a slice was refused at a local position past the slice *)
(* that is still a position of the base, where the write would have       *)
(* changed a bit                                                          *)
C5_Witness ==
    /\ last.op = "slice_set_bit"
    /\ last.a >= SliceBitLen(view)
    /\ last.res.err = "OutOfBounds"
    /\ view.start + last.a < BitLen(blocks)
    /\ GetBit(blocks, view.start + last.a) = OkBit(~last.v)

(* C6: every view returned lies within its base: start + len <=           *)
(* base.bit_len(), so each local position i < bit_len() of the view maps  *)
(* to a base position start + i < base.bit_len().                         *)
C6_ViewWithinBase ==
    view.kind # "none" =>
        /\ view.start + view.len <= BitLen(blocks)
        /\ \A i \in U64 :
               i < SliceBitLen(view) => view.start + i < BitLen(blocks)

(* C7: at every valid position p, rank0(p) returns, p + 1 and             *)
(* p + 1 - rank(p) neither overflow nor underflow, and                    *)
(* rank0(p) + rank(p) = p + 1.                                            *)
C7_Rank0 ==
    last.op = "rank0" =>
        /\ last.res.err = "none"
        /\ last.a + 1 <= U64Max
        /\ Rank(blocks, last.a) <= last.a + 1
        /\ last.res.num + Rank(blocks, last.a) = last.a + 1

(* rank0 at the last position of a base as long as u64 allows, with set   *)
(* and clear bits counted                                                 *)
C7_Witness ==
    /\ last.op = "rank0"
    /\ last.a + 1 = U64Max
    /\ last.res.err = "none"
    /\ last.res.num > 0
    /\ Rank(blocks, last.a) > 0

(* C8: bit_len() = block_len() * nbits holds initially and after every    *)
(* call, and no call changes block_len().                                 *)
C8_BitLen ==
    /\ BitLen(blocks) = BlockLen(blocks) * nbits
    /\ [][/\ BlockLen(blocks') = BlockLen(blocks)
          /\ BitLen(blocks') = BlockLen(blocks') * nbits]_vars

(* a set_block and a set_bit went through on a base of several blocks *)
C8_Witness ==
    /\ last.op \in {"set_bit", "set_block"}
    /\ last.res.err = "none"
    /\ BlockLen(blocks) > 1
    /\ BitLen(blocks) = BlockLen(blocks) * nbits

(* C9: for p < bit_len(), p div nbits is a block index < block_len() and  *)
(* get_bit(p) is the Block accessor's value at offset p mod nbits of the  *)
(* block at that index.                                                   *)
C9_GetBit ==
    (last.op = "get_bit" /\ last.a < BitLen(blocks)) =>
        /\ last.a \div nbits < BlockLen(blocks)
        /\ last.res =
               OkBit(BlockGetBit(blocks[(last.a \div nbits) + 1], last.a % nbits))

(* a read of a set bit at a non-zero offset of a block after the first *)
C9_Witness ==
    /\ last.op = "get_bit"
    /\ last.a < BitLen(blocks)
    /\ last.a \div nbits > 0
    /\ last.a % nbits > 0
    /\ last.res = OkBit(TRUE)

(* C10: set_bit(i, v) through a mutable slice, i < len, leaves the slice  *)
(* as it was and changes no base bit other than the one at start + i; the *)
(* base bits outside [start, start + len) keep their values.              *)
C10_SliceWriteFrame ==
    [][(last'.op = "slice_set_bit" /\ last'.a < SliceBitLen(view)) =>
          /\ view' = view
          /\ \A q \in U64 :
                 (/\ q < BitLen(blocks)
                  /\ \/ q # view.start + last'.a
                     \/ q < view.start
                     \/ q >= view.start + view.len)
                 => GetBit(blocks', q) = GetBit(blocks, q)]_vars

====
